---- MODULE Spec2Model ----
(***************************************************************************)
(* The inventory replenishment engine of src/analysis/                     *)
(* inventory_optimization.py (class InventoryOptimizer) as a state         *)
(* machine: one action per public method, acting on the object's fields.   *)
(*                                                                         *)
(* Numbers.  Quantities the code holds as floats are fixed-point integers  *)
(* in hundredths (1.00 is 100), one digit finer than the one-decimal       *)
(* rounding the code applies, so that round(x, 1) is a real conversion.    *)
(* Timestamps are whole hours; NaN is the value NaN.                       *)
(***************************************************************************)
EXTENDS Integers, Sequences, FiniteSets

VARIABLES
    csv_sample,       \* rows of {data_path}sample_data.csv (the file on disk)
    csv_inventory,    \* rows of {data_path}inventory_data.csv (the file on disk)
    sample_data,      \* self.sample_data
    inventory_data,   \* self.inventory_data
    forecast_models,  \* self.forecast_models: category -> trained model
    ret,              \* outcome of the last call: what it returned or raised
    previous,         \* outcome of the call before it, where a caller keeps it
    analyzer_data,    \* self.sample_data of a DemandAnalyzer
    mapper            \* a DeliveryZoneMapper: its sample_data and mapper

vars == <<csv_sample, csv_inventory, sample_data, inventory_data, forecast_models,
          ret, previous, analyzer_data, mapper>>

----------------------------------------------------------------------------
(* Bounds of the model *)

MaxRows == 5        \* rows of the demand table
MaxItems == 2       \* rows of the inventory table
MaxHorizon == 25    \* largest forecast horizon a caller passes

----------------------------------------------------------------------------
(* Numbers *)

NaN == 0 - 999999

Hundredths(n) == n * 100

Max(a, b) == IF a >= b THEN a ELSE b

\* Python's round(x, 1) on a value in hundredths: to the nearest tenth, a tie
\* going to the even tenth.
Round1(x) ==
    LET q == x \div 10
        r == x % 10
    IN  IF r < 5 THEN q * 10
        ELSE IF r > 5 THEN (q + 1) * 10
        ELSE IF q % 2 = 0 THEN q * 10 ELSE (q + 1) * 10

\* Python's round(x, 1) on a value in ten-thousandths, the result in
\* hundredths: to the nearest tenth, a tie going to the even tenth.
Round1Fine(x) ==
    LET q == x \div 1000
        r == x % 1000
    IN  IF r < 500 THEN q * 10
        ELSE IF r > 500 THEN (q + 1) * 10
        ELSE IF q % 2 = 0 THEN q * 10 ELSE (q + 1) * 10

\* floor(a * b / c) for a >= 0, b > 0, c > 0, the products kept in 32 bits
MulDiv(a, b, c) == (a \div c) * b + ((a % c) * b) \div c

\* Python's round(x, 2) on a value in thousandths, the result in hundredths
Round2(x) == Round1(x) \div 10

\* the float inf
Inf == 999999

Abs(x) == IF x < 0 THEN 0 - x ELSE x

RECURSIVE SqrtSearch(_, _, _)
\* the largest r in lo..hi with r*r <= x (lo*lo <= x)
SqrtSearch(x, lo, hi) ==
    IF lo >= hi THEN lo
    ELSE LET mid == (lo + hi + 1) \div 2
         IN  IF mid * mid <= x THEN SqrtSearch(x, mid, hi)
             ELSE SqrtSearch(x, lo, mid - 1)

\* floor of the square root of a natural number below 2^30
ISqrt(x) == SqrtSearch(x, 0, 32767)

RECURSIVE SqrtDigits(_, _, _, _)
\* the largest d in lo..hi with (100 r + d)^2 <= 10000 x, where rest is
\* 10000 (x - r^2): (100 r + d)^2 - 10000 r^2 = 200 r d + d^2
SqrtDigits(r, rest, lo, hi) ==
    IF lo >= hi THEN lo
    ELSE LET mid == (lo + hi + 1) \div 2
         IN  IF 200 * r * mid + mid * mid <= rest THEN SqrtDigits(r, rest, mid, hi)
             ELSE SqrtDigits(r, rest, lo, mid - 1)

\* np.sqrt of a non-negative real given as the integer x, in hundredths:
\* floor(100 * sqrt(x)), found digit-wise so that no product leaves 32 bits.
SqrtHundredths(x) ==
    LET r == ISqrt(x)
    IN  100 * r + SqrtDigits(r, 10000 * (x - r * r), 0, 99)

RECURSIVE SumSeq(_)
SumSeq(s) == IF s = <<>> THEN 0 ELSE Head(s) + SumSeq(Tail(s))

----------------------------------------------------------------------------
(* Tables: None, or a loaded frame of rows *)

NoTable == [loaded |-> FALSE, rows |-> <<>>]
Table(r) == [loaded |-> TRUE, rows |-> r]

----------------------------------------------------------------------------
(* The files under data_path.  A demand row is a DemandRecord reduced to   *)
(* the columns the engine reads; an inventory row is an InventoryItem.     *)

DemandCategories == {"A", "B"}

\* Hourly observations in file order, the first at hour 20 of day 0.  The
\* demand of category A alternates between 2 and 6 with the hour; that of
\* category B is constantly 4.
StampRows(cats) ==
    [i \in 1..Len(cats) |->
        [category |-> cats[i],
         timestamp |-> 19 + i,
         demand_quantity |-> IF cats[i] = "A" THEN (IF i % 2 = 1 THEN 2 ELSE 6) ELSE 4]]

\* n rows of category c
Block(c, n) == [i \in 1..n |-> c]

\* the files of at most MaxRows rows that hold each category's rows together
DemandFiles ==
    { StampRows(Block(c, n) \o Block(d, m)) :
        c \in DemandCategories, d \in DemandCategories,
        n \in 1..MaxRows, m \in 0..MaxRows } \cap
    { StampRows(k) : k \in UNION { [1..n -> DemandCategories] : n \in 1..MaxRows } }

\* demand files in which A alone, and both A and B, can be trained
ReferenceDemandFiles ==
    { StampRows(<<"A", "A", "A", "B">>),
      StampRows(<<"A", "A", "A", "B", "B">>) }

\* one demand row
Observed(c, t, q) == [category |-> c, timestamp |-> t, demand_quantity |-> q]

\* demand files whose rows are not in the order of their timestamps
UnsortedDemandFiles ==
    { <<Observed("A", 22, 6), Observed("A", 20, 2), Observed("A", 21, 4)>>,
      <<Observed("B", 21, 4), Observed("B", 24, 4), Observed("A", 23, 2),
        Observed("A", 20, 6), Observed("A", 22, 4)>> }

\* demand files with no demand at all, with no demand in the latest hour, and
\* with a constant demand of 14
FlatDemandFiles ==
    { <<Observed("A", 20, 0), Observed("A", 21, 0), Observed("A", 22, 0),
        Observed("A", 23, 0), Observed("A", 24, 0)>>,
      <<Observed("A", 20, 2), Observed("A", 21, 6), Observed("A", 22, 2),
        Observed("A", 23, 6), Observed("A", 24, 0)>>,
      <<Observed("B", 20, 14), Observed("B", 21, 14), Observed("B", 22, 14)>> }

\* demand files whose quantities are net of returns and negative: a constant
\* -4, an alternating -4 and -2, and a category of each sign
ReturnsDemandFiles ==
    { <<Observed("B", 20, 0 - 4), Observed("B", 21, 0 - 4), Observed("B", 22, 0 - 4)>>,
      <<Observed("B", 20, 0 - 4), Observed("B", 21, 0 - 2), Observed("B", 22, 0 - 4),
        Observed("B", 23, 0 - 2), Observed("B", 24, 0 - 4)>>,
      <<Observed("A", 20, 2), Observed("A", 21, 6), Observed("A", 22, 2),
        Observed("B", 23, 0 - 4), Observed("B", 24, 0 - 4)>> }

\* The products inventory_data.csv may list, each with the stock levels a row
\* of it may hold; stock and cost in hundredths.  No demand row has category C.
Products ==
    { [product_name |-> "P1", category |-> "A", lead_time_hours |-> 12,
       storage_cost_per_unit |-> Hundredths(100),
       stocks |-> {Hundredths(50)}],
      [product_name |-> "P2", category |-> "B", lead_time_hours |-> 24,
       storage_cost_per_unit |-> 0,
       stocks |-> {0, 530, 534}],
      [product_name |-> "P3", category |-> "A", lead_time_hours |-> 0,
       storage_cost_per_unit |-> 0 - 50,
       stocks |-> {Hundredths(50)}],
      [product_name |-> "P4", category |-> "C", lead_time_hours |-> 12,
       storage_cost_per_unit |-> 50,
       stocks |-> {0}] }

InventoryItems ==
    { [dark_store_id |-> "S1",
       product_name |-> p[1].product_name,
       category |-> p[1].category,
       current_stock |-> p[2],
       lead_time_hours |-> p[1].lead_time_hours,
       storage_cost_per_unit |-> p[1].storage_cost_per_unit] :
      p \in { q \in Products \X UNION { r.stocks : r \in Products } : q[2] \in q[1].stocks } }

\* One row per (store, product).  A row whose category no demand row has
\* comes alone or beside one other row.
InventoryFiles ==
    { inv \in UNION { [1..n -> InventoryItems] : n \in 0..MaxItems } :
        /\ \A i, j \in 1..Len(inv) : i # j => inv[i].product_name # inv[j].product_name
        /\ (\E i \in 1..Len(inv) : inv[i].category \notin DemandCategories)
               => Len(inv) <= 2 }

\* an inventory of two stores, each with one product of a category of its
\* own at a stock of 20 and a storage cost of 100
TwoStoreFiles ==
    { <<[dark_store_id |-> "S1", product_name |-> "P5", category |-> "A",
         current_stock |-> Hundredths(20), lead_time_hours |-> 12,
         storage_cost_per_unit |-> Hundredths(100)],
        [dark_store_id |-> "S2", product_name |-> "P6", category |-> "B",
         current_stock |-> Hundredths(20), lead_time_hours |-> 12,
         storage_cost_per_unit |-> Hundredths(100)]>> }

\* the inventories whose items have no positive storage cost
CostFreeFiles ==
    { inv \in InventoryFiles :
        \A i \in 1..Len(inv) : /\ inv[i].storage_cost_per_unit <= 0
                                /\ inv[i].category \in DemandCategories }

\* no row, or one row of a product with a lead time and a category of the
\* demand files, at the product's lowest stock
SingleItemFiles ==
    {<<>>} \cup { <<item>> : item \in { it \in InventoryItems :
                      /\ it.lead_time_hours > 0
                      /\ it.category \in DemandCategories
                      /\ \A other \in InventoryItems :
                             other.product_name = it.product_name
                                 => it.current_stock <= other.current_stock } }

----------------------------------------------------------------------------
(* create_demand_features *)

RECURSIVE CategoryIdx(_, _, _)
\* the indices i..Len(rows) of the rows of category c, in frame order
CategoryIdx(rows, c, i) ==
    IF i > Len(rows) THEN <<>>
    ELSE IF rows[i].category = c THEN <<i>> \o CategoryIdx(rows, c, i + 1)
    ELSE CategoryIdx(rows, c, i + 1)

RECURSIVE InsertByTimestamp(_, _, _)
InsertByTimestamp(rows, s, i) ==
    IF s = <<>> THEN <<i>>
    ELSE IF rows[i].timestamp < rows[Head(s)].timestamp THEN <<i>> \o s
    ELSE <<Head(s)>> \o InsertByTimestamp(rows, Tail(s), i)

RECURSIVE SortByTimestamp(_, _)
\* sort_values('timestamp') of the index sequence s
SortByTimestamp(rows, s) ==
    IF s = <<>> THEN <<>>
    ELSE InsertByTimestamp(rows, SortByTimestamp(rows, SubSeq(s, 1, Len(s) - 1)), s[Len(s)])

\* a category's rows left in the order of the frame
CategoryUnsorted(rows, c) == CategoryIdx(rows, c, 1)

\* data[data['category'] == category].sort_values('timestamp'), as row indices
CategorySorted(rows, c) == SortByTimestamp(rows, CategoryIdx(rows, c, 1))

PositionOf(s, x) == CHOOSE p \in 1..Len(s) : s[p] = x

\* data['category'].unique(): the categories in order of first appearance
RECURSIVE UniqueFrom(_, _, _)
UniqueFrom(rows, i, seen) ==
    IF i > Len(rows) THEN <<>>
    ELSE IF rows[i].category \in seen THEN UniqueFrom(rows, i + 1, seen)
    ELSE <<rows[i].category>> \o UniqueFrom(rows, i + 1, seen \cup {rows[i].category})

UniqueCategories(rows) == UniqueFrom(rows, 1, {})

RECURSIVE CategoryOrders(_, _)
\* for each category of cats in turn, its rows sorted by timestamp
CategoryOrders(rows, cats) ==
    IF cats = <<>> THEN <<>>
    ELSE <<CategorySorted(rows, Head(cats))>> \o CategoryOrders(rows, Tail(cats))

\* shift(k) within a category series (order): the demand k records before row i
ShiftedDemand(rows, order, i, k) ==
    LET p == PositionOf(order, i)
    IN  IF p > k THEN Hundredths(rows[order[p - k]].demand_quantity) ELSE NaN

\* rolling(window=3).mean() within a category series (order), at row i
RollingMean3(rows, order, i) ==
    LET p == PositionOf(order, i)
    IN  IF p >= 3
        THEN Hundredths(rows[order[p]].demand_quantity
                        + rows[order[p - 1]].demand_quantity
                        + rows[order[p - 2]].demand_quantity) \div 3
        ELSE NaN

RECURSIVE LagColumn(_, _, _, _, _)
\* The column demand_lag_k of the frame before filling, rows i..Len(rows):
\* each category's shifted series written back to the rows it came from.
LagColumn(rows, cats, orders, k, i) ==
    IF i > Len(rows) THEN <<>>
    ELSE <<ShiftedDemand(rows, orders[PositionOf(cats, rows[i].category)], i, k)>>
         \o LagColumn(rows, cats, orders, k, i + 1)

RECURSIVE Ma3Column(_, _, _, _)
Ma3Column(rows, cats, orders, i) ==
    IF i > Len(rows) THEN <<>>
    ELSE <<RollingMean3(rows, orders[PositionOf(cats, rows[i].category)], i)>>
         \o Ma3Column(rows, cats, orders, i + 1)

RECURSIVE BackFill(_)
\* fillna(method='bfill') of one column: a missing value takes the next
\* present value further down the frame, whatever its category
BackFill(col) ==
    IF col = <<>> THEN <<>>
    ELSE LET rest == BackFill(Tail(col))
         IN  <<IF Head(col) # NaN THEN Head(col)
               ELSE IF rest = <<>> THEN NaN ELSE Head(rest)>> \o rest

RECURSIVE ForwardFillFrom(_, _)
ForwardFillFrom(col, last) ==
    IF col = <<>> THEN <<>>
    ELSE LET v == IF Head(col) # NaN THEN Head(col) ELSE last
         IN  <<v>> \o ForwardFillFrom(Tail(col), v)

\* fillna(method='ffill') of one column
ForwardFill(col) == ForwardFillFrom(col, NaN)

FillNa(col) == ForwardFill(BackFill(col))

RECURSIVE FeatureFrame(_, _, _)
FeatureFrame(lag1, lag2, ma3) ==
    IF lag1 = <<>> THEN <<>>
    ELSE <<[demand_lag_1 |-> Head(lag1), demand_lag_2 |-> Head(lag2),
            demand_ma_3 |-> Head(ma3)]>>
         \o FeatureFrame(Tail(lag1), Tail(lag2), Tail(ma3))

\* the lag columns of the frame create_demand_features returns, row by row
create_demand_features(rows) ==
    LET cats == UniqueCategories(rows)
        orders == CategoryOrders(rows, cats)
    IN  FeatureFrame(FillNa(LagColumn(rows, cats, orders, 1, 1)),
                     FillNa(LagColumn(rows, cats, orders, 2, 1)),
                     FillNa(Ma3Column(rows, cats, orders, 1)))

----------------------------------------------------------------------------
(* train_demand_forecasting_models *)

RECURSIVE DropNa(_, _)
\* the indices of s whose feature row has no missing value
DropNa(features, s) ==
    IF s = <<>> THEN <<>>
    ELSE LET f == features[Head(s)]
         IN  IF f.demand_lag_1 # NaN /\ f.demand_lag_2 # NaN /\ f.demand_ma_3 # NaN
             THEN <<Head(s)>> \o DropNa(features, Tail(s))
             ELSE DropNa(features, Tail(s))

\* X = category_data[feature_columns].dropna(), as row indices by timestamp
FeatureRows(rows, features, c) == DropNa(features, CategorySorted(rows, c))

\* split_idx = int(len(X) * 0.8)
SplitIdx(n) == (n * 8) \div 10

\* the weights LinearRegression may give demand_lag_1
LagCoefs == {0 - 1, 1}

RECURSIVE TrainTarget(_, _, _)
\* y_train = y[:split_idx]
TrainTarget(rows, X, k) ==
    IF k = 0 THEN <<>>
    ELSE TrainTarget(rows, X, k - 1) \o <<rows[X[k]].demand_quantity>>

\* model.predict on a row whose demand_lag_1 is lag_1: the fitted intercept
\* and the weight of demand_lag_1 on its deviation from the training mean
PredictLag(intercept, lag_coef, lag_1) == intercept + lag_coef * (lag_1 - intercept)

RECURSIVE AbsPctErrors(_, _, _, _, _)
\* np.abs((y_test - y_pred) / y_test) for the rows X[k..], in thousandths of a
\* percent: x / 0 is inf and 0 / 0 is NaN
AbsPctErrors(rows, fit, intercept, lag_coef, k) ==
    IF k > Len(fit.X) THEN <<>>
    ELSE LET y_test == Hundredths(rows[fit.X[k]].demand_quantity)
             y_pred == PredictLag(intercept, lag_coef, fit.lag_1[k])
         IN  <<IF y_test # 0 THEN (Abs(y_test - y_pred) * 100000) \div Abs(y_test)
               ELSE IF y_pred = 0 THEN NaN ELSE Inf>>
             \o AbsPctErrors(rows, fit, intercept, lag_coef, k + 1)

\* np.mean(...) * 100, rounded to two decimals: in hundredths of a percent
Mape(errors) ==
    IF \E k \in 1..Len(errors) : errors[k] = NaN THEN NaN
    ELSE IF \E k \in 1..Len(errors) : errors[k] = Inf THEN Inf
    ELSE Round2(SumSeq(errors) \div Len(errors))

\* The fitted model of one category (fit: its feature rows X by timestamp and
\* their demand_lag_1).  The features are standardised on the training split,
\* so the least-squares intercept is the mean of y_train; the weight of
\* demand_lag_1 is the library's and ranges over LagCoefs.
FitModel(rows, fit, coef) ==
    LET split == SplitIdx(Len(fit.X))
        intercept == Hundredths(SumSeq(TrainTarget(rows, fit.X, split))) \div split
    IN  [intercept |-> intercept,
         lag_coef |-> coef,
         n_train |-> split,
         MAPE |-> Mape(AbsPctErrors(rows, fit, intercept, coef, split + 1))]

WithModel(models, c, m) ==
    [x \in DOMAIN models \cup {c} |-> IF x = c THEN m ELSE models[x]]

RECURSIVE LagOf(_, _)
\* the column demand_lag_1 of the feature rows X
LagOf(features, X) ==
    IF X = <<>> THEN <<>>
    ELSE <<features[Head(X)].demand_lag_1>> \o LagOf(features, Tail(X))

RECURSIVE TrainLoop(_, _, _)
\* The loop over the categories, up to its end or to the category on whose
\* empty training split StandardScaler.fit_transform raises: the categories
\* fitted, in turn, each with its feature rows X.
TrainLoop(rows, features, cats) ==
    IF cats = <<>> THEN [fitted |-> <<>>, raised |-> FALSE]
    ELSE LET X == FeatureRows(rows, features, Head(cats))
         IN  IF SplitIdx(Len(X)) = 0
             THEN [fitted |-> <<>>, raised |-> TRUE]
             ELSE LET rest == TrainLoop(rows, features, Tail(cats))
                  IN  [fitted |-> <<[category |-> Head(cats), X |-> X,
                                     lag_1 |-> LagOf(features, X)]>> \o rest.fitted,
                       raised |-> rest.raised]

RECURSIVE StoreModels(_, _, _, _)
\* self.forecast_models[category] = {...} for each fitted category, in turn
StoreModels(rows, fitted, coef, models) ==
    IF fitted = <<>> THEN models
    ELSE StoreModels(rows, Tail(fitted), coef,
                     WithModel(models, Head(fitted).category,
                               FitModel(rows, Head(fitted), coef[Head(fitted).category])))

NoModels == [c \in {} |-> 0]

\* the keys of models_performance, returned when no category raised
PerformanceKeys(out) ==
    IF out.raised THEN {} ELSE { out.fitted[k].category : k \in 1..Len(out.fitted) }

\* models_performance: the MAPE of each category in it
Performance(out, models) == [c \in PerformanceKeys(out) |-> models[c].MAPE]

\* The weights the library may fit: LinearRegression is deterministic and the
\* files under data_path do not change, so a category that has a model is
\* fitted again on the same rows and gets the same weights again.
\* a fit whose weights do not depend on the fit before it
FitChoicesAny(models) == [DemandCategories -> LagCoefs]

FitChoices(models) ==
    { coef \in [DemandCategories -> LagCoefs] :
        \A c \in DOMAIN models : coef[c] = models[c].lag_coef }

train_demand_forecasting_models ==
    /\ IF ~sample_data.loaded
       THEN /\ ret' = [op |-> "train", raised |-> FALSE, none |-> TRUE,
                       performance |-> {}, mape |-> NoModels]
            /\ UNCHANGED forecast_models
       ELSE \E rows \in {sample_data.rows} :
            \E out \in {TrainLoop(rows, create_demand_features(rows), UniqueCategories(rows))} :
            \E coef \in FitChoices(forecast_models) :
            \E models \in {StoreModels(rows, out.fitted, coef, forecast_models)} :
               /\ forecast_models' = models
               /\ ret' = [op |-> "train", raised |-> out.raised, none |-> FALSE,
                          performance |-> PerformanceKeys(out),
                          mape |-> Performance(out, models)]
    /\ UNCHANGED <<csv_sample, csv_inventory, sample_data, inventory_data>>

----------------------------------------------------------------------------
(* forecast_demand *)

\* the timestamp of the last row of the frame
LastRowTimestamp(rows) == rows[Len(rows)].timestamp

\* self.sample_data['timestamp'].max()
MaxTimestamp(rows) ==
    CHOOSE t \in {rows[i].timestamp : i \in 1..Len(rows)} :
        \A i \in 1..Len(rows) : rows[i].timestamp <= t

\* the last n elements of s, s.tail(n)
TailN(s, n) == IF Len(s) <= n THEN s ELSE SubSeq(s, Len(s) - n + 1, Len(s))

\* The lag features of every future point of category c: taken from
\* sample_data[category == c].tail(5), rows in frame order, 10 when too few.
FutureLags(rows, c) ==
    LET idx == TailN(CategoryIdx(rows, c, 1), 5)
        n == Len(idx)
        d(k) == rows[idx[k]].demand_quantity
    IN  [demand_lag_1 |-> IF n > 0 THEN Hundredths(d(n)) ELSE Hundredths(10),
         demand_lag_2 |-> IF n > 1 THEN Hundredths(d(n - 1)) ELSE Hundredths(10),
         demand_ma_3 |-> IF n >= 3 THEN Hundredths(d(n) + d(n - 1) + d(n - 2)) \div 3
                         ELSE Hundredths(10)]

\* model.predict(scaler.transform(X_future))[0]
Predict(m, lags) == PredictLag(m.intercept, m.lag_coef, lags.demand_lag_1)

\* the model's output reported as it is
PredictedDemandUnclamped(m, lags) == Round1(Predict(m, lags))

\* predicted_demand = max(0, ...), reported round(predicted_demand, 1)
PredictedDemand(m, lags) == Round1(Max(0, Predict(m, lags)))

RECURSIVE ForecastPoints(_, _, _, _, _)
\* the points for the hours last+i .. last+hours_ahead, each with the same lags
ForecastPoints(last_timestamp, c, predicted, i, hours_ahead) ==
    IF i > hours_ahead THEN <<>>
    ELSE <<[timestamp |-> last_timestamp + i,
            hour |-> (last_timestamp + i) % 24,
            category |-> c,
            predicted_demand |-> predicted]>>
         \o ForecastPoints(last_timestamp, c, predicted, i + 1, hours_ahead)

\* The forecast points of category c for the hours last+1 .. last+hours_ahead.
\* Only the cyclical features differ between the points, and the models of
\* FitModel give them no weight: the prediction is the same at every point.
CategoryForecast(rows, m, c, hours_ahead) ==
    ForecastPoints(MaxTimestamp(rows), c, PredictedDemand(m, FutureLags(rows, c)),
                   1, hours_ahead)

\* forecast_df, held per category; none when no model has been trained
ForecastFrameOf(rows, models, hours_ahead) ==
    IF DOMAIN models = {}
    THEN [none |-> TRUE, by_category |-> NoModels]
    ELSE [none |-> FALSE,
          by_category |-> [c \in DOMAIN models |->
              CategoryForecast(rows, models[c], c, hours_ahead)]]

\* ... on the object's demand table and models
ForecastFrame(hours_ahead) ==
    ForecastFrameOf(sample_data.rows, forecast_models, hours_ahead)

\* the horizons passed to a call: one day, and the largest
Horizons == {24, MaxHorizon}

forecast_demand ==
    /\ \E hours_ahead \in Horizons :
          \E f \in {ForecastFrame(hours_ahead)} :
              ret' = [op |-> "forecast", raised |-> FALSE, none |-> f.none,
                      hours_ahead |-> hours_ahead, forecasts |-> f.by_category]
    /\ UNCHANGED <<csv_sample, csv_inventory, sample_data, inventory_data, forecast_models>>

----------------------------------------------------------------------------
(* calculate_optimal_stock_levels *)

\* The planner's quantities before rounding are held in ten-thousandths, so
\* that the one-decimal rounding of a reported field is decided by the digits
\* the float has.

\* groupby('category')['demand_quantity'] mean, in ten-thousandths
CategoryMean(rows, c) ==
    LET idx == CategoryIdx(rows, c, 1)
    IN  (SumSeq([k \in 1..Len(idx) |-> rows[idx[k]].demand_quantity]) * 10000)
            \div Len(idx)

\* ... and std (sample standard deviation), in ten-thousandths: NaN for a
\* single record.  The variance is (n * sum(d^2) - sum(d)^2) / (n * (n - 1)).
CategoryStd(rows, c) ==
    LET idx == CategoryIdx(rows, c, 1)
        n == Len(idx)
        d(k) == rows[idx[k]].demand_quantity
        sum == SumSeq([k \in 1..n |-> d(k)])
        squares == SumSeq([k \in 1..n |-> d(k) * d(k)])
    IN  IF n < 2 THEN NaN
        ELSE SqrtHundredths(MulDiv(n * squares - sum * sum, 10000, n * (n - 1)))

HasCategory(rows, c) == \E i \in 1..Len(rows) : rows[i].category = c

\* the lookup with the lowest z-score for a service level it does not list
ZScoreDefaultLow(service_level) ==
    CASE service_level = 90 -> 128
      [] service_level = 95 -> 165
      [] service_level = 99 -> 233
      [] OTHER -> 128

\* the z-score lookup, service levels in percent, z in hundredths
ZScore(service_level) ==
    CASE service_level = 90 -> 128
      [] service_level = 95 -> 165
      [] service_level = 99 -> 233
      [] OTHER -> 165

\* the standard deviation taken as the statistics give it, without fallback
DemandStdUnguarded(std, avg_demand) == std

\* cat_stats['std'] if cat_stats['std'] > 0 else avg_demand * 0.2
DemandStd(std, avg_demand) == IF std # NaN /\ std > 0 THEN std ELSE (avg_demand * 2) \div 10

\* z_score * demand_std * np.sqrt(lead_time / 24); a NaN factor gives NaN
SafetyStock(z_score, demand_std, lead_time) ==
    IF demand_std = NaN THEN NaN
    ELSE MulDiv((z_score * demand_std) \div 100,
                SqrtHundredths((10000 * lead_time) \div 24), 10000)

\* holding_cost = storage_cost_per_unit * 0.2, in thousandths
HoldingCost(storage_cost) == storage_cost * 2

\* the order quantity whose fallback is one day of demand instead of seven
EoqFallbackDaily(avg_demand, holding_cost) ==
    IF holding_cost > 0
    THEN SqrtHundredths(MulDiv(avg_demand * 365, 2 * 50 * 1000, holding_cost))
    ELSE avg_demand

\* sqrt((2 * annual_demand * order_cost) / holding_cost) if holding_cost > 0
\* else avg_demand * 7, with annual_demand = avg_demand * 365, order_cost = 50;
\* avg_demand and the result in ten-thousandths, holding_cost in thousandths
Eoq(avg_demand, holding_cost) ==
    IF holding_cost > 0
    THEN SqrtHundredths(MulDiv(avg_demand * 365, 2 * 50 * 1000, holding_cost))
    ELSE avg_demand * 7

\* avg_demand_during_lead_time + safety_stock; a NaN term gives NaN
ReorderPoint(avg_demand, demand_std, z_score, lead_time) ==
    IF SafetyStock(z_score, demand_std, lead_time) = NaN THEN NaN
    ELSE (avg_demand * lead_time) \div 24 + SafetyStock(z_score, demand_std, lead_time)

MaxStock(reorder_point, eoq) == reorder_point + eoq

\* one row of optimal_levels
StockLevelPlan(rows, item, service_level) ==
    LET avg_demand == CategoryMean(rows, item.category)
        demand_std == DemandStd(CategoryStd(rows, item.category), avg_demand)
        z_score == ZScore(service_level)
        eoq == Eoq(avg_demand, HoldingCost(item.storage_cost_per_unit))
        reorder_point == ReorderPoint(avg_demand, demand_std, z_score, item.lead_time_hours)
    IN  [dark_store_id |-> item.dark_store_id,
         product_name |-> item.product_name,
         category |-> item.category,
         current_stock |-> item.current_stock,
         avg_daily_demand |-> Round1Fine(avg_demand),
         safety_stock |-> Round1Fine(SafetyStock(z_score, demand_std, item.lead_time_hours)),
         reorder_point |-> Round1Fine(reorder_point),
         optimal_max_stock |-> Round1Fine(MaxStock(reorder_point, eoq)),
         eoq |-> Round1Fine(eoq),
         lead_time_hours |-> item.lead_time_hours,
         service_level |-> service_level]

RECURSIVE PlanRows(_, _, _)
PlanRows(rows, items, service_level) ==
    IF items = <<>> THEN <<>>
    ELSE <<StockLevelPlan(rows, Head(items), service_level)>>
         \o PlanRows(rows, Tail(items), service_level)

\* The frame calculate_optimal_stock_levels returns: none without inventory,
\* raised when demand_stats[...].iloc[0] finds no row for an item's category.
OptimalLevelsOf(rows, inventory, service_level) ==
    IF ~inventory.loaded
    THEN [none |-> TRUE, raised |-> FALSE, plans |-> <<>>]
    ELSE IF \E i \in 1..Len(inventory.rows) :
                ~HasCategory(rows, inventory.rows[i].category)
    THEN [none |-> FALSE, raised |-> TRUE, plans |-> <<>>]
    ELSE [none |-> FALSE, raised |-> FALSE,
          plans |-> PlanRows(rows, inventory.rows, service_level)]

\* ... on the object's tables
OptimalLevels(service_level) ==
    OptimalLevelsOf(sample_data.rows, inventory_data, service_level)

ServiceLevels == {50, 90, 95, 99}

calculate_optimal_stock_levels ==
    /\ \E service_level \in ServiceLevels :
          \E o \in {OptimalLevels(service_level)} :
              ret' = [op |-> "levels", raised |-> o.raised, none |-> o.none,
                      service_level |-> service_level, plans |-> o.plans]
    /\ UNCHANGED <<csv_sample, csv_inventory, sample_data, inventory_data, forecast_models>>

----------------------------------------------------------------------------
(* generate_restocking_schedule *)

\* forecasts[forecasts['timestamp'] <= forecasts['timestamp'].min() + 24h]
\* .groupby('category')['predicted_demand'].sum(), for one category
Next24hDemand(points, min_timestamp) ==
    SumSeq([k \in 1..Len(points) |->
               IF points[k].timestamp <= min_timestamp + 24
               THEN points[k].predicted_demand ELSE 0])

\* predicted_demand_24h of category c: its sum, or 0 without a forecast
PredictedDemand24h(forecasts, c, min_timestamp) ==
    IF c \in DOMAIN forecasts THEN Next24hDemand(forecasts[c], min_timestamp) ELSE 0

NeedsRestock(projected_stock_24h, reorder_point) == projected_stock_24h <= reorder_point

\* bands whose Critical band leaves out a projected stock of exactly 0
UrgencyStrictCritical(projected_stock_24h, reorder_point) ==
    IF projected_stock_24h < 0 THEN "Critical"
    ELSE IF 2 * projected_stock_24h <= reorder_point THEN "High"
    ELSE IF projected_stock_24h <= reorder_point THEN "Medium"
    ELSE "Low"

\* bands whose Medium band leaves out a projected stock at the reorder point
UrgencyStrictMedium(projected_stock_24h, reorder_point) ==
    IF projected_stock_24h <= 0 THEN "Critical"
    ELSE IF 2 * projected_stock_24h <= reorder_point THEN "High"
    ELSE IF projected_stock_24h < reorder_point THEN "Medium"
    ELSE "Low"

Urgency(projected_stock_24h, reorder_point) ==
    IF projected_stock_24h <= 0 THEN "Critical"
    ELSE IF 2 * projected_stock_24h <= reorder_point THEN "High"
    ELSE IF projected_stock_24h <= reorder_point THEN "Medium"
    ELSE "Low"

SuggestedOrder(needs_restock, max_stock, current_stock) ==
    IF needs_restock THEN max_stock - current_stock ELSE 0

\* optimal_levels[(category == c) & (dark_store_id == s)]: the matching plans
MatchingPlans(plans, item) ==
    SelectSeq(plans, LAMBDA p : p.category = item.category
                                /\ p.dark_store_id = item.dark_store_id)

\* one entry of restocking_schedule
RestockAction(item, optimal_data, predicted_demand_24h) ==
    LET reorder_point == optimal_data.reorder_point
        projected_stock_24h == item.current_stock - predicted_demand_24h
        needs_restock == NeedsRestock(projected_stock_24h, reorder_point)
    IN  [dark_store_id |-> item.dark_store_id,
         product_name |-> item.product_name,
         category |-> item.category,
         current_stock |-> item.current_stock,
         predicted_demand_24h |-> Round1(predicted_demand_24h),
         projected_stock_24h |-> Round1(projected_stock_24h),
         reorder_point |-> Round1(reorder_point),
         needs_restock |-> needs_restock,
         urgency |-> Urgency(projected_stock_24h, reorder_point),
         suggested_order_qty |->
             Round1(SuggestedOrder(needs_restock, optimal_data.optimal_max_stock,
                                   item.current_stock)),
         lead_time_hours |-> item.lead_time_hours]

RECURSIVE ScheduleLoop(_, _, _, _)
\* the loop over inventory_data.iterrows(); an item without a plan is skipped
ScheduleLoop(items, plans, forecasts, min_timestamp) ==
    IF items = <<>> THEN <<>>
    ELSE LET item == Head(items)
             optimal_row == MatchingPlans(plans, item)
             rest == ScheduleLoop(Tail(items), plans, forecasts, min_timestamp)
         IN  IF Len(optimal_row) = 0 THEN rest
             ELSE <<RestockAction(item, optimal_row[1],
                                  PredictedDemand24h(forecasts, item.category, min_timestamp))>>
                  \o rest

\* urgency_order
UrgencyScore(urgency) ==
    CASE urgency = "Critical" -> 4
      [] urgency = "High" -> 3
      [] urgency = "Medium" -> 2
      [] urgency = "Low" -> 1

\* the order with the tie between equal urgencies broken the other way
SortsBeforeDescending(a, b) ==
    \/ UrgencyScore(a.urgency) > UrgencyScore(b.urgency)
    \/ /\ UrgencyScore(a.urgency) = UrgencyScore(b.urgency)
       /\ a.projected_stock_24h > b.projected_stock_24h

\* a sorts before b under ['urgency_score', 'projected_stock_24h'],
\* ascending=[False, True]
SortsBefore(a, b) ==
    \/ UrgencyScore(a.urgency) > UrgencyScore(b.urgency)
    \/ /\ UrgencyScore(a.urgency) = UrgencyScore(b.urgency)
       /\ a.projected_stock_24h < b.projected_stock_24h

RECURSIVE InsertAction(_, _)
InsertAction(s, x) ==
    IF s = <<>> THEN <<x>>
    ELSE IF SortsBefore(x, Head(s)) THEN <<x>> \o s
    ELSE <<Head(s)>> \o InsertAction(Tail(s), x)

RECURSIVE SortSchedule(_)
\* schedule_df.sort_values(...): equal rows keep their order
SortSchedule(s) ==
    IF s = <<>> THEN <<>>
    ELSE InsertAction(SortSchedule(SubSeq(s, 1, Len(s) - 1)), s[Len(s)])

\* What generate_restocking_schedule returns or raises: none when there is no
\* forecast or no inventory; raised when the stock-level call raises or when
\* the schedule is empty (an empty frame has no 'urgency' column).
RestockingScheduleOf(rows, inventory, models, forecast_horizon) ==
    LET f == ForecastFrameOf(rows, models, forecast_horizon)
        o == OptimalLevelsOf(rows, inventory, 95)
    IN  IF f.none THEN [none |-> TRUE, raised |-> FALSE, schedule |-> <<>>]
        ELSE IF o.raised THEN [none |-> FALSE, raised |-> TRUE, schedule |-> <<>>]
        ELSE IF o.none THEN [none |-> TRUE, raised |-> FALSE, schedule |-> <<>>]
        ELSE LET entries == ScheduleLoop(inventory.rows, o.plans, f.by_category,
                                         MaxTimestamp(rows) + 1)
             IN  IF entries = <<>>
                 THEN [none |-> FALSE, raised |-> TRUE, schedule |-> <<>>]
                 ELSE [none |-> FALSE, raised |-> FALSE, schedule |-> SortSchedule(entries)]

\* ... on the object's tables and models
RestockingSchedule(forecast_horizon) ==
    RestockingScheduleOf(sample_data.rows, inventory_data, forecast_models, forecast_horizon)

generate_restocking_schedule ==
    /\ \E forecast_horizon \in Horizons :
          \E r \in {RestockingSchedule(forecast_horizon)} :
              ret' = [op |-> "schedule", raised |-> r.raised, none |-> r.none,
                      forecast_horizon |-> forecast_horizon, schedule |-> r.schedule]
    /\ UNCHANGED <<csv_sample, csv_inventory, sample_data, inventory_data, forecast_models>>

----------------------------------------------------------------------------
(* calculate_inventory_costs *)

\* The costs before rounding are held in hundred-thousandths, so that the
\* two-decimal rounding of a reported sum is decided by the digits the float
\* has.

\* Python's round(x, 2) on a value in hundred-thousandths, the result in
\* hundredths: to the nearest hundredth, a tie going to the even one.
Round2Fine(x) ==
    LET q == x \div 1000
        r == x % 1000
    IN  IF r < 500 THEN q
        ELSE IF r > 500 THEN q + 1
        ELSE IF q % 2 = 0 THEN q ELSE q + 1

\* demand_dict.get(row['category'], 10): the category's mean demand, or 10,
\* in ten-thousandths
AvgDemandOrDefault(rows, c) ==
    IF HasCategory(rows, c) THEN CategoryMean(rows, c) ELSE 10 * 10000

\* current_stock * storage_cost_per_unit * 0.2 / 365
DailyHoldingCost(item) ==
    (item.current_stock * item.storage_cost_per_unit * 2) \div 365

\* max(0, (avg_demand - current_stock) / avg_demand) if avg_demand > 0 else 0,
\* in ten-thousandths; avg_demand in ten-thousandths, current_stock in
\* hundredths
StockoutProbability(avg_demand, current_stock) ==
    IF avg_demand > 0
    THEN Max(0, MulDiv(Max(0, avg_demand - current_stock * 100), 10000, avg_demand))
    ELSE 0

\* stockout_probability * avg_demand * 5: where the probability is not 0 the
\* product with avg_demand undoes the division by it
StockoutCost(avg_demand, current_stock) ==
    IF StockoutProbability(avg_demand, current_stock) = 0 THEN 0
    ELSE (avg_demand - current_stock * 100) * 5 * 10

\* one row of inventory_data with the three cost columns written
CostedRow(rows, item) ==
    LET holding_cost == DailyHoldingCost(item)
        stockout_cost == StockoutCost(AvgDemandOrDefault(rows, item.category),
                                      item.current_stock)
    IN  [dark_store_id |-> item.dark_store_id,
         product_name |-> item.product_name,
         category |-> item.category,
         current_stock |-> item.current_stock,
         lead_time_hours |-> item.lead_time_hours,
         storage_cost_per_unit |-> item.storage_cost_per_unit,
         holding_cost |-> holding_cost,
         stockout_cost |-> stockout_cost,
         total_cost |-> holding_cost + stockout_cost]

RECURSIVE CostedRows(_, _)
CostedRows(rows, items) ==
    IF items = <<>> THEN <<>>
    ELSE <<CostedRow(rows, Head(items))>> \o CostedRows(rows, Tail(items))

RECURSIVE GroupSum(_, _, _)
\* groupby(key)['total_cost'].sum() for one group
GroupSum(items, key, g) ==
    IF items = <<>> THEN 0
    ELSE (IF Head(items)[key] = g THEN Head(items).total_cost ELSE 0)
         + GroupSum(Tail(items), key, g)

\* groupby(key)['total_cost'].sum().round(2).to_dict()
CostBy(items, key) ==
    [g \in { items[k][key] : k \in 1..Len(items) } |-> Round2Fine(GroupSum(items, key, g))]

\* cost_analysis, from the inventory rows with their cost columns
CostAnalysis(items) ==
    [total_holding_cost_daily |->
         Round2Fine(SumSeq([k \in 1..Len(items) |-> items[k].holding_cost])),
     total_stockout_cost_daily |->
         Round2Fine(SumSeq([k \in 1..Len(items) |-> items[k].stockout_cost])),
     total_inventory_cost_daily |->
         Round2Fine(SumSeq([k \in 1..Len(items) |-> items[k].total_cost])),
     cost_by_category |-> CostBy(items, "category"),
     cost_by_store |-> CostBy(items, "dark_store_id")]

NoCosts == [none |-> TRUE]

calculate_inventory_costs ==
    /\ IF ~inventory_data.loaded
       THEN /\ ret' = [op |-> "costs", raised |-> FALSE, none |-> TRUE,
                       cost_analysis |-> NoCosts]
            /\ UNCHANGED inventory_data
       ELSE \E items \in {CostedRows(sample_data.rows, inventory_data.rows)} :
                /\ inventory_data' = Table(items)
                /\ ret' = [op |-> "costs", raised |-> FALSE, none |-> FALSE,
                           cost_analysis |-> CostAnalysis(items)]
    /\ UNCHANGED <<csv_sample, csv_inventory, sample_data, forecast_models>>

----------------------------------------------------------------------------
(* load_data and the object's life *)

\* a file that pd.read_csv cannot read (missing, or not a table)
Unreadable == <<[unreadable |-> TRUE]>>

\* load_data returns True: no read raised
LoadOk == csv_sample # Unreadable /\ csv_inventory # Unreadable

\* self.sample_data after the try block: assigned when its file was read
LoadedSample == IF csv_sample # Unreadable THEN Table(csv_sample) ELSE sample_data

\* self.inventory_data after the try block: assigned when no read raised
LoadedInventory == IF LoadOk THEN Table(csv_inventory) ELSE inventory_data

\* load_data: the files are read in turn; an exception ends the reading, is
\* caught, and False is returned
load_data ==
    /\ sample_data' = LoadedSample
    /\ inventory_data' = LoadedInventory
    /\ ret' = [op |-> "load", raised |-> FALSE, none |-> FALSE, ok |-> LoadOk]
    /\ UNCHANGED <<csv_sample, csv_inventory, forecast_models>>

\* the horizon create_optimization_report asks forecast_demand for
ReportHours == 24

\* the default forecast_horizon of generate_restocking_schedule
DefaultHorizon == 72

\* What create_optimization_report returns when no stage raises.
OptimizationReport(rows, inventory, out, models) ==
    LET schedule == RestockingScheduleOf(rows, inventory, models, DefaultHorizon)
        levels == OptimalLevelsOf(rows, inventory, 95)
    IN  [op |-> "report",
         raised |-> out.raised \/ levels.raised \/ schedule.raised,
         none |-> FALSE,
         model_performance |-> Performance(out, models),
         demand_forecasts |-> ForecastFrameOf(rows, models, ReportHours),
         optimal_stock_levels |-> levels.plans,
         restocking_schedule |-> schedule,
         cost_analysis |-> CostAnalysis(CostedRows(rows, inventory.rows))]

\* create_optimization_report: load_data, then the five stages in turn.  A
\* stage that raises ends the call there, with what the stages before it
\* have written; the inventory table gets its cost columns in the last stage.
create_optimization_report ==
    /\ IF ~LoadOk
       THEN /\ sample_data' = LoadedSample
            /\ inventory_data' = LoadedInventory
            /\ ret' = [op |-> "report", raised |-> FALSE, none |-> TRUE]
            /\ UNCHANGED forecast_models
       ELSE
       \E rows \in {csv_sample} :
       \E inventory \in {Table(csv_inventory)} :
       \E out \in {TrainLoop(rows, create_demand_features(rows), UniqueCategories(rows))} :
       \E coef \in FitChoices(forecast_models) :
       \E models \in {StoreModels(rows, out.fitted, coef, forecast_models)} :
       \E report \in {OptimizationReport(rows, inventory, out, models)} :
          /\ sample_data' = Table(rows)
          /\ forecast_models' = models
          /\ IF report.raised
             THEN /\ ret' = [op |-> "report", raised |-> TRUE, none |-> FALSE]
                  /\ inventory_data' = inventory
             ELSE /\ ret' = report
                  /\ inventory_data' = Table(CostedRows(rows, inventory.rows))
    /\ UNCHANGED <<csv_sample, csv_inventory>>

----------------------------------------------------------------------------
(* DemandAnalyzer of src/analysis/demand_analysis.py.  It reads the same   *)
(* sample_data.csv; a row is reduced to the columns the stock-out metrics  *)
(* read.  Rates are in ten-thousandths, shortages in tenths of a unit.     *)

SampleColumns ==
    {"timestamp", "category", "demand_quantity", "stock_available",
     "orders_fulfilled", "orders_cancelled", "hour", "day_of_week"}

NoAnalyzerTable == [loaded |-> FALSE, columns |-> {}, rows |-> <<>>]

MaxOrders == 2      \* rows of the order table the analyzer reads

\* one order record as the analyzer reads it
OrderRecords ==
    [category : DemandCategories, demand_quantity : {0, 10},
     stock_available : {2, 10}, orders_fulfilled : {5}, orders_cancelled : {0, 5}]

\* hourly records in file order, the first at hour 23 of day 0
StampOrders(recs) ==
    [i \in 1..Len(recs) |->
        [category |-> recs[i].category,
         timestamp |-> 22 + i,
         demand_quantity |-> recs[i].demand_quantity,
         stock_available |-> recs[i].stock_available,
         orders_fulfilled |-> recs[i].orders_fulfilled,
         orders_cancelled |-> recs[i].orders_cancelled]]

OrderFiles ==
    { StampOrders(r) : r \in UNION { [1..n -> OrderRecords] : n \in 0..MaxOrders } }

Hour(timestamp) == timestamp % 24

\* DemandAnalyzer.load_data: the sample file is parsed and kept, then the
\* pattern and inventory files are read; a file that cannot be read ends the
\* call with False
analyzer_load_data ==
    /\ analyzer_data' =
          IF csv_sample = Unreadable THEN analyzer_data
          ELSE [loaded |-> TRUE,
                columns |-> SampleColumns,
                rows |-> [i \in 1..Len(csv_sample) |->
                            [category |-> csv_sample[i].category,
                             timestamp |-> csv_sample[i].timestamp,
                             hour |-> Hour(csv_sample[i].timestamp),
                             demand_quantity |-> csv_sample[i].demand_quantity,
                             stock_available |-> csv_sample[i].stock_available,
                             orders_fulfilled |-> csv_sample[i].orders_fulfilled,
                             orders_cancelled |-> csv_sample[i].orders_cancelled,
                             stock_shortage |-> NaN]]]
    /\ ret' = [op |-> "analyzer_load", raised |-> FALSE, none |-> FALSE,
               ok |-> csv_sample # Unreadable /\ csv_inventory # Unreadable]
    /\ UNCHANGED <<csv_sample, csv_inventory, sample_data, inventory_data,
                   forecast_models, mapper>>

\* np.maximum(0, demand_quantity - stock_available), row by row
WithStockShortage(rows) ==
    [i \in 1..Len(rows) |->
        [rows[i] EXCEPT !.stock_shortage =
            Max(0, rows[i].demand_quantity - rows[i].stock_available)]]

\* the sum of one column over the rows
ColumnSum(rows, column) ==
    SumSeq([i \in 1..Len(rows) |-> rows[i][column]])

\* the rows of one (category, hour) group
GroupRows(rows, c, h) ==
    SelectSeq(rows, LAMBDA r : r.category = c /\ r.hour = h)

\* oos_analysis: shortage and demand summed by category and hour, and their
\* ratio, 0 where the group's demand is 0
OosAnalysis(rows) ==
    [g \in { <<rows[i].category, rows[i].hour>> : i \in 1..Len(rows) } |->
        LET grp == GroupRows(rows, g[1], g[2])
            short == ColumnSum(grp, "stock_shortage")
            dem == ColumnSum(grp, "demand_quantity")
        IN  [stock_shortage |-> short,
             demand_quantity |-> dem,
             oos_rate |-> IF dem = 0 THEN 0 ELSE (short * 10000) \div dem]]

\* analyze_demand_patterns: None before loading; else the stock_shortage
\* column is added to self.sample_data and the analysis returned
analyze_demand_patterns ==
    /\ IF ~analyzer_data.loaded
       THEN /\ ret' = [op |-> "analyze", raised |-> FALSE, none |-> TRUE]
            /\ UNCHANGED analyzer_data
       ELSE /\ analyzer_data' =
                 [analyzer_data EXCEPT
                     !.columns = @ \cup {"stock_shortage"},
                     !.rows = WithStockShortage(@)]
            /\ ret' = [op |-> "analyze", raised |-> FALSE, none |-> FALSE,
                       oos_analysis |-> OosAnalysis(WithStockShortage(analyzer_data.rows))]
    /\ UNCHANGED <<csv_sample, csv_inventory, sample_data, inventory_data,
                   forecast_models, mapper>>

\* total_shortage in tenths: the stock_shortage column where the table has
\* it, else 0.6 of the cancelled orders
TotalShortageCancelled(data) ==
    ColumnSum(data.rows, "orders_cancelled") * 6

TotalShortage(data) ==
    IF "stock_shortage" \in data.columns
    THEN ColumnSum(data.rows, "stock_shortage") * 10
    ELSE TotalShortageCancelled(data)

TotalDemand(data) ==
    IF "demand_quantity" \in data.columns
    THEN ColumnSum(data.rows, "demand_quantity")
    ELSE ColumnSum(data.rows, "orders_fulfilled") + ColumnSum(data.rows, "orders_cancelled")

\* total_shortage / total_demand, or 0.25 where nothing was demanded
OutOfStockRate(data) ==
    IF TotalDemand(data) > 0
    THEN (TotalShortage(data) * 1000) \div TotalDemand(data)
    ELSE 2500

\* calculate_key_metrics: None before loading; len(sample_data) divides the
\* count of low scores, so a table without rows raises ZeroDivisionError
calculate_key_metrics ==
    /\ ret' =
          IF ~analyzer_data.loaded
          THEN [op |-> "metrics", raised |-> FALSE, none |-> TRUE]
          ELSE IF analyzer_data.rows = <<>>
          THEN [op |-> "metrics", raised |-> TRUE, none |-> FALSE]
          ELSE [op |-> "metrics", raised |-> FALSE, none |-> FALSE,
                total_demand |->
                    ColumnSum(analyzer_data.rows, "demand_quantity"),
                total_fulfilled |->
                    ColumnSum(analyzer_data.rows, "orders_fulfilled"),
                total_cancelled |->
                    ColumnSum(analyzer_data.rows, "orders_cancelled"),
                out_of_stock_rate |-> OutOfStockRate(analyzer_data)]
    /\ UNCHANGED <<csv_sample, csv_inventory, sample_data, inventory_data,
                   forecast_models, analyzer_data, mapper>>

----------------------------------------------------------------------------
(* DeliveryZoneMapper of src/analysis/delivery_zone_mapping.py *)

(* Radii are in units of 1/(10 * 2^20) km, so that the twenty midpoints of  *)
(* the search are whole numbers; travel times are in units of 2^-20 minute, *)
(* rounded up, so that a time is at most a whole number of minutes in the   *)
(* model exactly when it is in the code.                                    *)

DarkStores == {"DS001", "DS002", "DS003", "DS004", "DS005"}

\* the mapper after __init__
NewMapper == [sample_data |-> NoTable, dark_stores |-> DarkStores]

MaxVisits == 2      \* rows of the delivery table the mapper reads
MaxTarget == 15     \* largest target delivery time a caller passes, minutes

\* the stores a delivery row can name: two the mapper knows and one it does not
VisitedStores == {"DS001", "DS002", "DS006"}

\* hourly delivery rows in file order
StampVisits(stores) ==
    [i \in 1..Len(stores) |-> [dark_store_id |-> stores[i], timestamp |-> 6 + i]]

VisitFiles ==
    { StampVisits(v) : v \in UNION { [1..n -> VisitedStores] : n \in 0..MaxVisits } }

\* DeliveryZoneMapper.load_data: the sample file is parsed and the stores
\* without a row in it are dropped from dark_stores; a file that cannot be
\* read ends the call with False
mapper_load_data ==
    /\ mapper' =
          IF csv_sample = Unreadable THEN mapper
          ELSE [sample_data |->
                    Table([i \in 1..Len(csv_sample) |->
                             [dark_store_id |-> csv_sample[i].dark_store_id,
                              timestamp |-> csv_sample[i].timestamp,
                              hour |-> Hour(csv_sample[i].timestamp)]]),
                dark_stores |->
                    { k \in mapper.dark_stores :
                        \E i \in 1..Len(csv_sample) : csv_sample[i].dark_store_id = k }]
    /\ ret' = [op |-> "mapper_load", raised |-> FALSE, none |-> FALSE,
               ok |-> csv_sample # Unreadable]
    /\ UNCHANGED <<csv_sample, csv_inventory, sample_data, inventory_data,
                   forecast_models, analyzer_data>>

RECURSIVE Pow2(_)
Pow2(n) == IF n = 0 THEN 1 ELSE 2 * Pow2(n - 1)

SearchSteps == 20
RadiusUnits == 10 * Pow2(SearchSteps)       \* units of radius in one km
MinuteUnits == Pow2(SearchSteps)            \* units of time in one minute

PeakHours == {7, 8, 9, 17, 18, 19, 20}
BusinessHours == {10, 11, 12, 13, 14, 15, 16}

\* km/h, with the default traffic_factor of 1.0
BaseSpeed(hour) ==
    IF hour \in PeakHours THEN 15
    ELSE IF hour \in BusinessHours THEN 25
    ELSE 35

pickup_delivery_time == 3

\* (distance_km / base_speed) * 60 + pickup_delivery_time
calculate_travel_time(distance, hour) ==
    (distance * 6 + BaseSpeed(hour) - 1) \div BaseSpeed(hour)
        + pickup_delivery_time * MinuteUnits

\* n / d rounded to the nearest whole number, ties to even
RoundDiv(n, d) ==
    LET q == n \div d
        r == n % d
    IN  IF 2 * r < d THEN q
        ELSE IF 2 * r > d THEN q + 1
        ELSE IF q % 2 = 0 THEN q ELSE q + 1

RECURSIVE BinarySearch(_, _, _, _, _, _)
\* the loop of lines 146-154 with `steps` iterations left
BinarySearch(min_radius, max_radius, optimal_radius, hour, target, steps) ==
    IF steps = 0 THEN optimal_radius
    ELSE LET test_radius == (min_radius + max_radius) \div 2
         IN  IF calculate_travel_time(test_radius, hour) <= target * MinuteUnits
             THEN BinarySearch(test_radius, max_radius, test_radius, hour, target, steps - 1)
             ELSE BinarySearch(min_radius, test_radius, optimal_radius, hour, target, steps - 1)

\* the radius the search settles on: between 0.1 and 10.0 km, from 1.0 km
OptimalRadius(hour, target) ==
    BinarySearch(RadiusUnits \div 10, 10 * RadiusUnits, RadiusUnits, hour, target,
                 SearchSteps)

\* one hour's zone: radius_km in hundredths of a km, estimated_delivery_time
\* in tenths of a minute
HourlyZone(hour, target) ==
    LET optimal_radius == OptimalRadius(hour, target)
    IN  [radius_km |-> RoundDiv(optimal_radius * 5, Pow2(SearchSteps - 1)),
         estimated_delivery_time |->
             RoundDiv(optimal_radius * 15, Pow2(SearchSteps - 2) * BaseSpeed(hour))
                 + pickup_delivery_time * 10]

\* generate_delivery_zones: for each store of dark_stores the zone of each
\* hour of the day.  The areas and the averages derived from the radii are
\* not carried.
generate_delivery_zones ==
    /\ \E target_delivery_time \in 1..MaxTarget :
       \E zones \in {[hour \in 0..23 |-> HourlyZone(hour, target_delivery_time)]} :
          ret' = [op |-> "zones", raised |-> FALSE, none |-> FALSE,
                  target_delivery_time |-> target_delivery_time,
                  delivery_zones |->
                      [store_id \in mapper.dark_stores |-> [hourly_zones |-> zones]]]
    /\ UNCHANGED <<csv_sample, csv_inventory, sample_data, inventory_data,
                   forecast_models, analyzer_data, mapper>>


\* no call before the last one, or none the caller kept
NoCall == [op |-> "none", raised |-> FALSE, none |-> FALSE]

\* The files under data_path: any demand file beside an inventory of at most
\* one row, or a reference demand file beside any inventory file.
Init ==
    /\ \/ csv_sample \in DemandFiles /\ csv_inventory \in SingleItemFiles
       \/ csv_sample \in ReferenceDemandFiles
          /\ csv_inventory \in InventoryFiles \cup TwoStoreFiles
       \/ csv_sample \in UnsortedDemandFiles \cup FlatDemandFiles
          /\ csv_inventory \in SingleItemFiles
    /\ sample_data = NoTable
    /\ inventory_data = NoTable
    /\ forecast_models = NoModels
    /\ ret = [op |-> "init", raised |-> FALSE, none |-> FALSE]
    /\ previous = NoCall
    /\ analyzer_data = NoAnalyzerTable
    /\ mapper = NewMapper

\* a caller that uses each outcome and drops it
Next ==
    \/ load_data /\ UNCHANGED <<previous, analyzer_data, mapper>>
    \/ train_demand_forecasting_models /\ UNCHANGED <<previous, analyzer_data, mapper>>
    \/ forecast_demand /\ UNCHANGED <<previous, analyzer_data, mapper>>
    \/ calculate_optimal_stock_levels /\ UNCHANGED <<previous, analyzer_data, mapper>>
    \/ generate_restocking_schedule /\ UNCHANGED <<previous, analyzer_data, mapper>>
    \/ calculate_inventory_costs /\ UNCHANGED <<previous, analyzer_data, mapper>>
    \/ create_optimization_report /\ UNCHANGED <<previous, analyzer_data, mapper>>

Spec == Init /\ [][Next]_vars

\* The files of a store whose demand is net of returns.  With a holding cost
\* that is not positive the planner takes no square root of the negative
\* annual demand.
InitReturns ==
    /\ csv_sample \in ReturnsDemandFiles
    /\ csv_inventory \in CostFreeFiles
    /\ sample_data = NoTable
    /\ inventory_data = NoTable
    /\ forecast_models = NoModels
    /\ ret = [op |-> "init", raised |-> FALSE, none |-> FALSE]
    /\ previous = NoCall
    /\ analyzer_data = NoAnalyzerTable
    /\ mapper = NewMapper

SpecReturns == InitReturns /\ [][Next]_vars

\* the demand files a store's export alternates between: the records of one
\* category, or those of the other
ReloadDemandFiles == { StampRows(Block(c, 5)) : c \in DemandCategories }

\* sample_data.csv is replaced on disk between two calls, or removed; the
\* next load_data reads the new file
replace_sample_file ==
    /\ \E f \in (ReloadDemandFiles \cup {Unreadable}) \ {csv_sample} : csv_sample' = f
    /\ UNCHANGED <<csv_inventory, sample_data, inventory_data, forecast_models, ret>>

\* inventory_data.csv is removed from disk, or put back without a row
replace_inventory_file ==
    /\ \E f \in {<<>>, Unreadable} \ {csv_inventory} : csv_inventory' = f
    /\ UNCHANGED <<csv_sample, sample_data, inventory_data, forecast_models, ret>>

InitReload ==
    /\ csv_sample \in ReloadDemandFiles
    /\ csv_inventory = <<>>
    /\ sample_data = NoTable
    /\ inventory_data = NoTable
    /\ forecast_models = NoModels
    /\ ret = [op |-> "init", raised |-> FALSE, none |-> FALSE]
    /\ previous = NoCall
    /\ analyzer_data = NoAnalyzerTable
    /\ mapper = NewMapper

\* loading, training and forecasting while the demand file changes
NextReload ==
    \/ replace_sample_file /\ UNCHANGED <<previous, analyzer_data, mapper>>
    \/ replace_inventory_file /\ UNCHANGED <<previous, analyzer_data, mapper>>
    \/ load_data /\ UNCHANGED <<previous, analyzer_data, mapper>>
    \/ train_demand_forecasting_models /\ UNCHANGED <<previous, analyzer_data, mapper>>
    \/ forecast_demand /\ UNCHANGED <<previous, analyzer_data, mapper>>

SpecReload == InitReload /\ [][NextReload]_vars

\* the order file an analyzer is pointed at
InitAnalyzer ==
    /\ csv_sample \in OrderFiles
    /\ csv_inventory = <<>>
    /\ sample_data = NoTable
    /\ inventory_data = NoTable
    /\ forecast_models = NoModels
    /\ ret = [op |-> "init", raised |-> FALSE, none |-> FALSE]
    /\ previous = NoCall
    /\ analyzer_data = NoAnalyzerTable
    /\ mapper = NewMapper

NextAnalyzer ==
    \/ analyzer_load_data /\ UNCHANGED previous
    \/ analyze_demand_patterns /\ UNCHANGED previous
    \/ calculate_key_metrics /\ UNCHANGED previous

SpecAnalyzer == InitAnalyzer /\ [][NextAnalyzer]_vars

\* the delivery file a mapper is pointed at
InitMapper ==
    /\ csv_sample \in VisitFiles
    /\ csv_inventory = <<>>
    /\ sample_data = NoTable
    /\ inventory_data = NoTable
    /\ forecast_models = NoModels
    /\ ret = [op |-> "init", raised |-> FALSE, none |-> FALSE]
    /\ previous = NoCall
    /\ analyzer_data = NoAnalyzerTable
    /\ mapper = NewMapper

NextMapper ==
    \/ mapper_load_data /\ UNCHANGED previous
    \/ generate_delivery_zones /\ UNCHANGED previous

SpecMapper == InitMapper /\ [][NextMapper]_vars

\* The files of a caller that compares each outcome with the one before it:
\* a reference, unsorted or flat demand file beside one stocked item.
InitRepeat ==
    /\ csv_sample \in ReferenceDemandFiles \cup UnsortedDemandFiles \cup FlatDemandFiles
    /\ csv_inventory \in SingleItemFiles
    /\ sample_data = NoTable
    /\ inventory_data = NoTable
    /\ forecast_models = NoModels
    /\ ret = [op |-> "init", raised |-> FALSE, none |-> FALSE]
    /\ previous = NoCall
    /\ analyzer_data = NoAnalyzerTable
    /\ mapper = NewMapper

\* the same calls, the caller keeping the outcome of the call before
NextRepeat ==
    \/ load_data /\ previous' = ret /\ UNCHANGED <<analyzer_data, mapper>>
    \/ train_demand_forecasting_models /\ previous' = ret /\ UNCHANGED <<analyzer_data, mapper>>
    \/ forecast_demand /\ previous' = ret /\ UNCHANGED <<analyzer_data, mapper>>
    \/ calculate_optimal_stock_levels /\ previous' = ret /\ UNCHANGED <<analyzer_data, mapper>>
    \/ generate_restocking_schedule /\ previous' = ret /\ UNCHANGED <<analyzer_data, mapper>>
    \/ calculate_inventory_costs /\ previous' = ret /\ UNCHANGED <<analyzer_data, mapper>>
    \/ create_optimization_report /\ previous' = ret /\ UNCHANGED <<analyzer_data, mapper>>

SpecRepeat == InitRepeat /\ [][NextRepeat]_vars

----------------------------------------------------------------------------
(* The claims *)

\* the last call was generate_restocking_schedule and it returned a schedule
ScheduleReturned == ret.op = "schedule" /\ ~ret.raised /\ ~ret.none

\* the last call was calculate_optimal_stock_levels and it returned its rows
LevelsReturned == ret.op = "levels" /\ ~ret.raised /\ ~ret.none

\* the position of an action's item in the inventory table
ItemPosition(a) ==
    CHOOSE i \in 1..Len(inventory_data.rows) :
        inventory_data.rows[i].product_name = a.product_name

\* An action's projected stock before rounding.  Its predicted_demand_24h is
\* a sum of one-decimal values, which rounding leaves as it is.
ProjectedStock(a) == a.current_stock - a.predicted_demand_24h

\* the plan the schedule joins to an action's item
PlanOf(a) ==
    Head(SelectSeq(OptimalLevels(95).plans,
                   LAMBDA p : p.category = a.category
                              /\ p.dark_store_id = a.dark_store_id))

\* C1: a returned schedule is ordered: the urgency rank never increases from
\* one action to the next, and between consecutive actions of equal urgency
\* the reported projected_stock_24h never decreases.
C1_ScheduleOrdered ==
    ScheduleReturned =>
        \A k \in 1..(Len(ret.schedule) - 1) :
            LET a == ret.schedule[k]
                b == ret.schedule[k + 1]
            IN  /\ UrgencyScore(a.urgency) >= UrgencyScore(b.urgency)
                /\ a.urgency = b.urgency => a.projected_stock_24h <= b.projected_stock_24h

\* two actions of equal urgency and different projected stock, which the
\* inventory table lists in the other order
C1_Witness ==
    /\ ScheduleReturned
    /\ \E k \in 1..(Len(ret.schedule) - 1) :
          LET a == ret.schedule[k]
              b == ret.schedule[k + 1]
          IN  /\ a.urgency = b.urgency
              /\ a.projected_stock_24h < b.projected_stock_24h
              /\ ItemPosition(a) > ItemPosition(b)

\* C2: for every action, needs_restock is True exactly when the reported
\* projected_stock_24h is at most the reported reorder_point.
C2_NeedsRestockIffReported ==
    ScheduleReturned =>
        \A k \in 1..Len(ret.schedule) :
            LET a == ret.schedule[k]
            IN  a.needs_restock <=> a.projected_stock_24h <= a.reorder_point

\* C3: suggested_order_qty is never negative: max(0, optimal_max_stock -
\* current_stock) when needs_restock, and 0 otherwise.
C3_SuggestedOrderNonNegative ==
    ScheduleReturned =>
        \A k \in 1..Len(ret.schedule) :
            LET a == ret.schedule[k]
            IN  /\ a.suggested_order_qty >= 0
                /\ a.suggested_order_qty =
                       IF a.needs_restock
                       THEN Round1(Max(0, PlanOf(a).optimal_max_stock - a.current_stock))
                       ELSE 0

\* the four bands of the claim, each with both of its ends
UrgencyBand(projected, reorder_point) ==
    CHOOSE u \in {"Critical", "High", "Medium", "Low"} :
        /\ u = "Critical" <=> projected <= 0
        /\ u = "High" <=> 0 < projected /\ 2 * projected <= reorder_point
        /\ u = "Medium" <=> reorder_point < 2 * projected /\ projected <= reorder_point
        /\ u = "Low" <=> ~(projected <= 0)
                         /\ ~(0 < projected /\ 2 * projected <= reorder_point)
                         /\ ~(reorder_point < 2 * projected /\ projected <= reorder_point)

\* C4: the urgency of every action is decided by its projected stock and its
\* reorder point, by the four bands; an item without stock is Critical.
C4_UrgencyBands ==
    ScheduleReturned =>
        \A k \in 1..Len(ret.schedule) :
            LET a == ret.schedule[k]
            IN  /\ a.urgency = UrgencyBand(ProjectedStock(a), a.reorder_point)
                /\ a.current_stock = 0 => a.urgency = "Critical"

\* a schedule holding both a High and a Medium action
C4_Witness ==
    /\ ScheduleReturned
    /\ \E k \in 1..Len(ret.schedule) : ret.schedule[k].urgency = "High"
    /\ \E k \in 1..Len(ret.schedule) : ret.schedule[k].urgency = "Medium"

\* C5: an item whose stock equals its plan's reorder point, with no predicted
\* demand, is never Low.
C5_AtReorderPointNotLow ==
    ScheduleReturned =>
        \A k \in 1..Len(ret.schedule) :
            LET a == ret.schedule[k]
            IN  a.current_stock = PlanOf(a).reorder_point /\ a.predicted_demand_24h = 0
                    => a.urgency # "Low"

\* such an item with a positive reorder point: it is Medium
C5_Witness ==
    /\ ScheduleReturned
    /\ \E k \in 1..Len(ret.schedule) :
          LET a == ret.schedule[k]
          IN  /\ a.current_stock = PlanOf(a).reorder_point
              /\ a.predicted_demand_24h = 0
              /\ a.reorder_point > 0
              /\ a.urgency = "Medium"

\* the sum of the first 24 hourly points of a category's forecast
First24Hours(points) ==
    SumSeq([k \in 1..(IF Len(points) < 24 THEN Len(points) ELSE 24) |->
               points[k].predicted_demand])

\* C6: predicted_demand_24h of an action whose category has a forecast is the
\* sum of the first 24 hourly points of that forecast, whatever the horizon.
C6_First24Hours ==
    ScheduleReturned =>
        \A k \in 1..Len(ret.schedule) :
            LET a == ret.schedule[k]
            IN  a.category \in DOMAIN forecast_models =>
                    a.predicted_demand_24h =
                        Round1(First24Hours(CategoryForecast(sample_data.rows,
                                   forecast_models[a.category], a.category,
                                   ret.forecast_horizon)))

\* C7: no action is emitted for an item whose category has no forecast.
C7_NoActionWithoutForecast ==
    ScheduleReturned =>
        \A k \in 1..Len(ret.schedule) : ret.schedule[k].category \in DOMAIN forecast_models

\* C8: every row of the stock-level table has optimal_max_stock >=
\* reorder_point >= 0 and eoq >= 0.
C8_PlanBounds ==
    LevelsReturned =>
        \A k \in 1..Len(ret.plans) :
            /\ ret.plans[k].optimal_max_stock >= ret.plans[k].reorder_point
            /\ ret.plans[k].reorder_point >= 0
            /\ ret.plans[k].eoq >= 0

\* a table with a row of positive lead time and zero storage cost whose
\* category has a single demand record, and a row of negative storage cost
C8_Witness ==
    /\ LevelsReturned
    /\ \E k \in 1..Len(ret.plans) :
          /\ Len(CategoryIdx(sample_data.rows, ret.plans[k].category, 1)) = 1
          /\ inventory_data.rows[k].storage_cost_per_unit = 0
          /\ ret.plans[k].lead_time_hours > 0
          /\ ret.plans[k].reorder_point > 0
          /\ ret.plans[k].eoq > 0
    /\ \E k \in 1..Len(ret.plans) :
          /\ inventory_data.rows[k].storage_cost_per_unit < 0
          /\ ret.plans[k].optimal_max_stock > ret.plans[k].reorder_point

\* the inventory rows whose category has demand statistics
KnownRows == SelectSeq(inventory_data.rows, LAMBDA it : HasCategory(sample_data.rows, it.category))

\* C9: with a row of unknown category in the inventory, the call still
\* returns, and returns the plans of exactly the other rows.
C9_UnknownCategoryExcluded ==
    ret.op = "levels" /\ ~ret.none =>
        /\ ~ret.raised
        /\ ret.plans = PlanRows(sample_data.rows, KnownRows, ret.service_level)

\* the number of valid feature rows of category c in the loaded demand table
ValidFeatureRows(c) ==
    Len(FeatureRows(sample_data.rows, create_demand_features(sample_data.rows), c))

\* C10: training returns; a category with fewer than 4 valid feature rows has
\* no model and no performance entry, every other category has a model.
C10_ShortCategorySkipped ==
    ret.op = "train" /\ ~ret.none =>
        /\ ~ret.raised
        /\ \A c \in { sample_data.rows[i].category : i \in 1..Len(sample_data.rows) } :
              IF ValidFeatureRows(c) < 4
              THEN c \notin DOMAIN forecast_models /\ c \notin ret.performance
              ELSE c \in DOMAIN forecast_models /\ c \in ret.performance

\* the last call was calculate_inventory_costs on a loaded inventory table
CostsCalled == ret.op = "costs" /\ ~ret.none

\* C11: no division fault in stock planning or cost estimation: an item
\* without holding cost gets eoq = 7 * mean, a category whose standard
\* deviation is not positive gets demand_std = 0.2 * mean, and an item whose
\* category has no positive mean demand gets no stockout cost.
C11_DivisionFallbacks ==
    /\ LevelsReturned =>
           \A k \in 1..Len(ret.plans) :
               LET item == inventory_data.rows[k]
                   mean == CategoryMean(sample_data.rows, item.category)
                   std == CategoryStd(sample_data.rows, item.category)
               IN  /\ item.storage_cost_per_unit = 0
                          => ret.plans[k].eoq = Round1Fine(7 * mean)
                   /\ (std = NaN \/ std <= 0)
                          => ret.plans[k].safety_stock =
                                 Round1Fine(SafetyStock(ZScore(ret.service_level),
                                     (2 * mean) \div 10, item.lead_time_hours))
    /\ CostsCalled =>
           /\ ~ret.raised
           /\ \A k \in 1..Len(inventory_data.rows) :
                  LET item == inventory_data.rows[k]
                  IN  (HasCategory(sample_data.rows, item.category)
                       /\ CategoryMean(sample_data.rows, item.category) <= 0)
                          => item.stockout_cost = 0

\* the documented case: storage cost 0 and a constant demand of 14 give an
\* order quantity of 98
C11_Witness ==
    /\ LevelsReturned
    /\ \E k \in 1..Len(ret.plans) :
          /\ inventory_data.rows[k].storage_cost_per_unit = 0
          /\ CategoryMean(sample_data.rows, ret.plans[k].category) = 14 * 10000
          /\ CategoryStd(sample_data.rows, ret.plans[k].category) = 0
          /\ ret.plans[k].eoq = Hundredths(98)
          /\ ret.plans[k].safety_stock > 0

\* an item of a category without demand, after its costs were estimated
C11_WitnessCosts ==
    /\ CostsCalled
    /\ \E k \in 1..Len(inventory_data.rows) :
          /\ HasCategory(sample_data.rows, inventory_data.rows[k].category)
          /\ CategoryMean(sample_data.rows, inventory_data.rows[k].category) = 0
          /\ inventory_data.rows[k].stockout_cost = 0

\* the last call was forecast_demand and it returned a forecast table
ForecastReturned == ret.op = "forecast" /\ ~ret.raised /\ ~ret.none

\* C12: every predicted_demand of a returned forecast is >= 0.
C12_ForecastNonNegative ==
    ForecastReturned =>
        \A c \in DOMAIN ret.forecasts :
            \A k \in 1..Len(ret.forecasts[c]) : ret.forecasts[c][k].predicted_demand >= 0

\* a forecast of a model whose output for the future rows is negative
C12_Witness ==
    /\ ForecastReturned
    /\ \E c \in DOMAIN ret.forecasts :
          /\ Predict(forecast_models[c], FutureLags(sample_data.rows, c)) < 0
          /\ ret.forecasts[c][1].predicted_demand = 0

\* t is the latest timestamp of the demand table
IsLastObserved(t) ==
    /\ \E i \in 1..Len(sample_data.rows) : sample_data.rows[i].timestamp = t
    /\ \A i \in 1..Len(sample_data.rows) : sample_data.rows[i].timestamp <= t

\* C13: forecast_demand(H) returns, for each category with a model and for no
\* other, H points at the hours 1..H after the last observation, in that
\* order, each with the hour of day of its timestamp.
C13_HorizonPoints ==
    ForecastReturned =>
        /\ DOMAIN ret.forecasts = DOMAIN forecast_models
        /\ \A c \in DOMAIN ret.forecasts :
              LET points == ret.forecasts[c]
              IN  /\ Len(points) = ret.hours_ahead
                  /\ \A k \in 1..Len(points) :
                        /\ IsLastObserved(points[k].timestamp - k)
                        /\ points[k].hour = points[k].timestamp % 24
                        /\ points[k].category = c

\* a forecast of MaxHorizon hours for two categories, over a demand table
\* whose last row is not its latest
C13_Witness ==
    /\ ForecastReturned
    /\ ret.hours_ahead = MaxHorizon
    /\ Cardinality(DOMAIN ret.forecasts) = 2
    /\ ~IsLastObserved(sample_data.rows[Len(sample_data.rows)].timestamp)

\* the z-score the claim gives a service level (in percent), in hundredths
ClaimedZ(service_level) ==
    IF service_level = 90 THEN 128
    ELSE IF service_level = 99 THEN 233
    ELSE 165

\* C14: the safety stock of every row is computed with z = 1.28, 1.65, 2.33
\* for the service levels 0.90, 0.95, 0.99 and with 1.65 for any other.
C14_ZScoreTable ==
    LevelsReturned =>
        \A k \in 1..Len(ret.plans) :
            LET item == inventory_data.rows[k]
                mean == CategoryMean(sample_data.rows, item.category)
                std == DemandStd(CategoryStd(sample_data.rows, item.category), mean)
            IN  ret.plans[k].safety_stock =
                    Round1Fine(SafetyStock(ClaimedZ(ret.service_level), std,
                                           item.lead_time_hours))

\* a positive safety stock planned for a service level the lookup does not
\* list, and which would be another with z = 1.28
C14_Witness ==
    /\ LevelsReturned
    /\ ret.service_level \notin {90, 95, 99}
    /\ \E k \in 1..Len(ret.plans) :
          LET item == inventory_data.rows[k]
              mean == CategoryMean(sample_data.rows, item.category)
              std == DemandStd(CategoryStd(sample_data.rows, item.category), mean)
          IN  /\ ret.plans[k].safety_stock > 0
              /\ ret.plans[k].safety_stock
                     # Round1Fine(SafetyStock(128, std, item.lead_time_hours))

\* the last call was train_demand_forecasting_models and it returned
TrainReturned == ret.op = "train" /\ ~ret.raised /\ ~ret.none

\* C15: the MAPE reported for a category with at least 4 feature rows is a
\* finite number >= 0.
C15_MapeFinite ==
    TrainReturned =>
        \A c \in DOMAIN ret.mape :
            ValidFeatureRows(c) >= 4 =>
                ret.mape[c] # NaN /\ ret.mape[c] # Inf /\ ret.mape[c] >= 0

\* the operations of the engine that read the loaded tables
EngineOperations == {"train", "forecast", "levels", "schedule", "costs"}

\* C16: no engine operation changes the loaded demand table or the loaded
\* inventory table: rows, columns and values are after the call what they
\* were before it.
C16_TablesUnchanged ==
    [][ret'.op \in EngineOperations =>
           sample_data' = sample_data /\ inventory_data' = inventory_data]_vars

\* two outcomes are of the same method called with the same arguments
SameCall(p, r) ==
    /\ p.op = r.op
    /\ p.op = "forecast" => p.hours_ahead = r.hours_ahead
    /\ p.op = "levels" => p.service_level = r.service_level
    /\ p.op = "schedule" => p.forecast_horizon = r.forecast_horizon

\* the last call repeated the call before it
Repeated == ret.op \in EngineOperations \cup {"report"} /\ SameCall(previous, ret)

\* C17: create_optimization_report, or a stage of it, run a second time on
\* the same object with the files unchanged gives what the first run gave:
\* the same model performance, forecast table, stock-level table,
\* restocking schedule and cost summary.
C17_RepeatYieldsSame == Repeated => ret = previous

\* create_optimization_report ran twice in a row and returned a report with
\* a trained model and a restocking action in it
C17_Witness ==
    /\ Repeated
    /\ ret.op = "report"
    /\ ~ret.raised
    /\ DOMAIN ret.model_performance # {}
    /\ ~ret.restocking_schedule.none
    /\ ret.restocking_schedule.schedule # <<>>

\* the values a category's own series has in a column before filling
OwnValues(rows, column, c) ==
    { column[j] : j \in { k \in 1..Len(rows) : rows[k].category = c /\ column[k] # NaN } }

\* a filled column holds, where the column had no value, a value of the
\* row's own category, and no value only where the category has none
FilledFromOwnCategory(rows, column) ==
    \A i \in 1..Len(rows) :
        column[i] = NaN =>
            LET own == OwnValues(rows, column, rows[i].category)
                filled == FillNa(column)[i]
            IN  IF own = {} THEN filled = NaN ELSE filled \in own

\* C18: in the frame create_demand_features returns, a missing lag or
\* moving-average value is filled with a value of the same category only,
\* never with one of another category, and none stays missing in a category
\* whose series has a computed value.
C18_FilledWithinCategory ==
    ret.op = "train" /\ ~ret.none =>
        LET rows == sample_data.rows
            cats == UniqueCategories(rows)
            orders == CategoryOrders(rows, cats)
        IN  /\ FilledFromOwnCategory(rows, LagColumn(rows, cats, orders, 1, 1))
            /\ FilledFromOwnCategory(rows, LagColumn(rows, cats, orders, 2, 1))
            /\ FilledFromOwnCategory(rows, Ma3Column(rows, cats, orders, 1))

\* the records of category c alone, in the order of the demand table
OwnRows(rows, c) == SelectSeq(rows, LAMBDA r : r.category = c)

\* the weights the stored models were fitted with
StoredCoefs ==
    [c \in DemandCategories |->
        IF c \in DOMAIN forecast_models THEN forecast_models[c].lag_coef ELSE 1]

\* the models the engine trains on the records of category c alone
ModelsAlone(rows, c) ==
    LET own == OwnRows(rows, c)
        out == TrainLoop(own, create_demand_features(own), UniqueCategories(own))
    IN  StoreModels(own, out.fitted, StoredCoefs, NoModels)

\* C19: forecasting is independent per category: the model and the forecast
\* points (timestamps and predicted demand) of a category are those the
\* engine gives on that category's records alone, whatever the records of
\* the other categories and the order the categories are processed in.
C19_ForecastPerCategory ==
    ForecastReturned =>
        \A c \in {sample_data.rows[i].category : i \in 1..Len(sample_data.rows)} :
            LET alone == ModelsAlone(sample_data.rows, c)
            IN  /\ c \in DOMAIN ret.forecasts <=> c \in DOMAIN alone
                /\ c \in DOMAIN ret.forecasts /\ c \in DOMAIN alone =>
                       ret.forecasts[c] =
                           CategoryForecast(OwnRows(sample_data.rows, c), alone[c], c,
                                            ret.hours_ahead)

\* the lag context of category c taken from its records in order of
\* timestamp: the latest demand, the one before it, the mean of the latest
\* three (10 where the records are too few, as in the code)
ChronologicalLags(rows, c) ==
    LET idx == CategorySorted(rows, c)
        n == Len(idx)
        d(k) == rows[idx[k]].demand_quantity
    IN  [demand_lag_1 |-> IF n > 0 THEN Hundredths(d(n)) ELSE Hundredths(10),
         demand_lag_2 |-> IF n > 1 THEN Hundredths(d(n - 1)) ELSE Hundredths(10),
         demand_ma_3 |-> IF n >= 3 THEN Hundredths(d(n) + d(n - 1) + d(n - 2)) \div 3
                         ELSE Hundredths(10)]

\* C20: every future point of a category is predicted from one lag context,
\* that of the category's chronologically most recent observations (lag 1
\* the demand at its latest timestamp, lag 2 the one before, the moving
\* average the mean of the latest three), whatever the row order of the
\* demand table, and never from earlier forecast values.
C20_LagsMostRecent ==
    ForecastReturned =>
        \A c \in DOMAIN ret.forecasts :
            /\ FutureLags(sample_data.rows, c) = ChronologicalLags(sample_data.rows, c)
            /\ \A k \in 1..Len(ret.forecasts[c]) :
                   ret.forecasts[c][k].predicted_demand =
                       PredictedDemand(forecast_models[c],
                                       ChronologicalLags(sample_data.rows, c))

\* the plan of an action's own (store, product): the row the planner
\* computes for the inventory item the action is about
OwnPlan(a) ==
    StockLevelPlan(sample_data.rows, inventory_data.rows[ItemPosition(a)], 95)

\* C21: each action of the restocking schedule takes its reorder_point and
\* optimal_max_stock from the plan of its own (store, product); of two
\* products of one category in one store, neither uses the other's plan.
C21_ActionUsesOwnPlan ==
    ScheduleReturned =>
        \A k \in 1..Len(ret.schedule) :
            LET a == ret.schedule[k]
            IN  /\ a.reorder_point = OwnPlan(a).reorder_point
                /\ a.needs_restock =>
                       a.suggested_order_qty =
                           Round1(OwnPlan(a).optimal_max_stock - a.current_stock)

\* C22: every row calculate_optimal_stock_levels returns satisfies, on its
\* reported one-decimal fields, optimal_max_stock = reorder_point + eoq.
C22_MaxStockIsSum ==
    LevelsReturned =>
        \A k \in 1..Len(ret.plans) :
            ret.plans[k].optimal_max_stock =
                ret.plans[k].reorder_point + ret.plans[k].eoq

\* the records of row i's category observed before it
EarlierRecords(rows, i) ==
    { j \in 1..Len(rows) : rows[j].category = rows[i].category
                            /\ rows[j].timestamp < rows[i].timestamp }

\* the latest of a non-empty set of records
LatestOf(rows, js) == CHOOSE j \in js : \A k \in js : rows[k].timestamp <= rows[j].timestamp

\* C23: whatever the row order of the table, the frame create_demand_features
\* returns has, at every record with a predecessor in its category by
\* timestamp, demand_lag_1 = the predecessor's demand, and at every record
\* with two of them, demand_lag_2 = the demand two records earlier and
\* demand_ma_3 = the mean of its own and the two preceding demands.
C23_LagsPerCategory ==
    ret.op = "train" /\ ~ret.none =>
        LET rows == sample_data.rows
            features == create_demand_features(rows)
        IN  \A i \in 1..Len(rows) :
                LET earlier == EarlierRecords(rows, i)
                IN  earlier # {} =>
                        LET p1 == LatestOf(rows, earlier)
                        IN  /\ features[i].demand_lag_1 = Hundredths(rows[p1].demand_quantity)
                            /\ earlier # {p1} =>
                                   LET p2 == LatestOf(rows, earlier \ {p1})
                                   IN  /\ features[i].demand_lag_2 =
                                              Hundredths(rows[p2].demand_quantity)
                                       /\ features[i].demand_ma_3 =
                                              Hundredths(rows[i].demand_quantity
                                                         + rows[p1].demand_quantity
                                                         + rows[p2].demand_quantity) \div 3

\* features were computed for a table whose first row is the latest of
\* three records of its category with three different demands
C23_Witness ==
    /\ ret.op = "train" /\ ~ret.none
    /\ Len(sample_data.rows) >= 3
    /\ Cardinality(EarlierRecords(sample_data.rows, 1)) = 2
    /\ Cardinality({ sample_data.rows[j].demand_quantity :
                        j \in EarlierRecords(sample_data.rows, 1) \cup {1} }) = 3

RECURSIVE SumOver(_, _)
\* the sum of the values a function has on a finite set of its domain
SumOver(f, keys) ==
    IF keys = {} THEN 0
    ELSE LET k == CHOOSE x \in keys : TRUE
         IN  f[k] + SumOver(f, keys \ {k})

\* C24: in the cost summary, each cost_by_category and each cost_by_store
\* entry is the sum of the total costs of the group's items, the reported
\* values of either breakdown add up to the reported
\* total_inventory_cost_daily, and that total is total_holding_cost_daily +
\* total_stockout_cost_daily.
C24_CostBreakdownsAddUp ==
    CostsCalled /\ inventory_data.rows # <<>> =>
        LET summary == ret.cost_analysis
        IN  /\ SumOver(summary.cost_by_category, DOMAIN summary.cost_by_category)
                   = summary.total_inventory_cost_daily
            /\ SumOver(summary.cost_by_store, DOMAIN summary.cost_by_store)
                   = summary.total_inventory_cost_daily
            /\ summary.total_inventory_cost_daily
                   = summary.total_holding_cost_daily + summary.total_stockout_cost_daily

\* C25: for every action of the schedule, needs_restock is True exactly when
\* urgency is not Low, whatever reorder point the planner produced: positive,
\* 0, or negative (a category whose mean demand is negative).
C25_RestockIffUrgent ==
    ScheduleReturned =>
        \A k \in 1..Len(ret.schedule) :
            ret.schedule[k].needs_restock <=> ret.schedule[k].urgency # "Low"

\* the categories of the loaded demand table
LoadedCategories == { sample_data.rows[i].category : i \in 1..Len(sample_data.rows) }

\* C26: once a training call has returned, the keys of forecast_models are
\* the categories of the loaded demand table, no model of a table loaded
\* before is left, and forecast_demand has points of these categories only.
C26_ModelsOfLoadedTable ==
    /\ TrainReturned => DOMAIN forecast_models = LoadedCategories
    /\ ForecastReturned /\ sample_data.loaded => DOMAIN ret.forecasts \subseteq LoadedCategories

\* C27: load_data is all-or-nothing: a call that returns False leaves the
\* demand table and the inventory table as they were before it.
C27_FailedLoadChangesNothing ==
    [][ret'.op = "load" /\ ~ret'.ok =>
           sample_data' = sample_data /\ inventory_data' = inventory_data]_vars

\* the call that gave ret' was made before its prerequisite had succeeded
CalledTooEarly ==
    \/ ret'.op = "train" /\ ~sample_data.loaded
    \/ ret'.op \in {"levels", "costs"} /\ ~inventory_data.loaded
    \/ ret'.op \in {"forecast", "schedule"} /\ DOMAIN forecast_models = {}

\* C28: an operation called before its prerequisite returns None, raises
\* nothing and leaves the tables and the models as they were; with the
\* tables loaded and a model trained, generate_restocking_schedule returns a
\* schedule without raising, also for an inventory table without rows.
C28_PrerequisitesGuarded ==
    [][/\ CalledTooEarly =>
              /\ ret'.none /\ ~ret'.raised
              /\ sample_data' = sample_data
              /\ inventory_data' = inventory_data
              /\ forecast_models' = forecast_models
       /\ (/\ ret'.op = "schedule"
           /\ sample_data.loaded /\ inventory_data.loaded
           /\ DOMAIN forecast_models # {}) => ~ret'.none /\ ~ret'.raised]_vars

\* the table as load_data leaves it, before any analysis has added a column
AsLoaded(data) == [data EXCEPT !.columns = SampleColumns]

\* C29: the out_of_stock_rate that calculate_key_metrics reports is the one
\* it reports on the table as loaded, whether or not analyze_demand_patterns
\* was called before it.
C29_StockoutRateAlike ==
    ret.op = "metrics" /\ ~ret.none /\ ~ret.raised =>
        ret.out_of_stock_rate = OutOfStockRate(AsLoaded(analyzer_data))

\* C30: every hourly zone generate_delivery_zones returns has a radius
\* between 0.1 and 10.0 km and a travel time of at most the target, also for
\* a target no radius attains.
C30_ZoneWithinTarget ==
    ret.op = "zones" =>
        \A store_id \in DOMAIN ret.delivery_zones : \A hour \in 0..23 :
            LET zone == ret.delivery_zones[store_id].hourly_zones[hour]
                optimal_radius == OptimalRadius(hour, ret.target_delivery_time)
            IN  /\ zone.radius_km >= 10 /\ zone.radius_km <= 1000
                /\ optimal_radius >= RadiusUnits \div 10
                /\ optimal_radius <= 10 * RadiusUnits
                /\ calculate_travel_time(optimal_radius, hour)
                       <= ret.target_delivery_time * MinuteUnits
                /\ zone.estimated_delivery_time <= ret.target_delivery_time * 10

====
